---- MODULE Spec2Model ----
(***************************************************************************)
(* Model of the coordinate-translating rewriting engine of codeviewer.py:  *)
(* OffsetList, Rewriter, HTMLAnnotationSet.apply,                          *)
(* sanitize_code_as_html; of split_args and highlight_diagnostics; and of  *)
(* the routes /api/sources and /api/sources/<idx> of restserver.py.        *)
(*                                                                         *)
(* Python strings are sequences of one-character strings.  Columns and     *)
(* line numbers are the 0-based integers of the code; sequences are        *)
(* 1-based, so original column c of a line is element c+1.                 *)
(*                                                                         *)
(* A Python dict is the sequence of its [k, v] entries in iteration order. *)
(* The language leaves that order unspecified (CPython 2 iterates in hash- *)
(* slot order, so {7, 8} iterates 8, 7; PyPy iterates in insertion order), *)
(* so a new key enters the sequence at a position "slot" that the caller   *)
(* of the operator chooses from every index.                               *)
(***************************************************************************)
EXTENDS Integers, Sequences, FiniteSets, TLC

VARIABLES
    ol,           \* an OffsetList driven directly (insert / remove)
    lines,        \* Rewriter.lines: the rewritten lines
    col_offs,     \* Rewriter.col_offs: one OffsetList per line
    col_lens,     \* Rewriter.col_lens: original length of each line
    tags,         \* HTMLAnnotationSet.tags: buffered (tag, attributes, extent)
    orig,         \* the lines of the buffer the Rewriter was constructed from
    hist,         \* the calls made so far, in order
    err,          \* "none", or the exception that ended the last call
    args,         \* the argument list given to split_args
    split,        \* what split_args returned, <<>> before the call
    diagnostics,  \* line -> set of (diag_class, message), given to
                  \* highlight_diagnostics
    sources,      \* CodeViewer.sources: the relative source filenames
    resp          \* the answer of the REST server to the last request

vars == <<ol, lines, col_offs, col_lens, tags, orig, hist, err, args, split,
          diagnostics, sources, resp>>

----------------------------------------------------------------------------
(* Bounds of the model *)

MaxPos == 3        \* OffsetList positions are 0..MaxPos
MaxOLOps == 4      \* number of direct OffsetList calls
MaxLen == 2        \* longest line of a formatted buffer
MaxTags == 2       \* number of add_tag calls before formatting
MaxEditLen == 3    \* longest line of a buffer that is edited directly
MaxOps == 3        \* number of calls made on a Rewriter that is edited directly
MaxArgs == 4       \* longest argument list
MaxAttrs == 2      \* longest attribute list of a tag
MaxDiags == 3      \* most diagnostics on one line
MaxSources == 3    \* most source files of the input directory

----------------------------------------------------------------------------
(* Python built-ins *)

Max(a, b) == IF a >= b THEN a ELSE b
Min(a, b) == IF a <= b THEN a ELSE b

\* the index a slice bound i denotes in a sequence of length n
SliceIndex(i, n) == IF i < 0 THEN Max(i + n, 0) ELSE Min(i, n)

\* s[:i]
SliceTo(s, i) == SubSeq(s, 1, SliceIndex(i, Len(s)))

\* s[i:]
SliceFrom(s, i) == SubSeq(s, SliceIndex(i, Len(s)) + 1, Len(s))

\* list[i]: the 1-based element the index denotes, 0 for IndexError
ListIndex(i, n) ==
    IF i >= 0 /\ i < n THEN i + 1
    ELSE IF i < 0 /\ i + n >= 0 THEN i + n + 1
    ELSE 0

\* key in dict
HasKey(d, key) == \E i \in 1..Len(d) : d[i].k = key

\* dict[key], 0 when absent
DictGet(d, key) ==
    IF HasKey(d, key)
    THEN (CHOOSE e \in {d[i] : i \in 1..Len(d)} : e.k = key).v
    ELSE 0

\* the positions of the iteration order a key may enter at
Slots(d, key) == IF HasKey(d, key) THEN {0} ELSE 0..Len(d)

\* dict[key] += length, or dict[key] = length for a new key, which enters the
\* iteration order after `slot` existing entries
DictAdd(d, key, length, slot) ==
    IF HasKey(d, key)
    THEN [i \in 1..Len(d) |->
            IF d[i].k = key THEN [k |-> key, v |-> d[i].v + length] ELSE d[i]]
    ELSE SubSeq(d, 1, slot) \o <<[k |-> key, v |-> length]>>
            \o SubSeq(d, slot + 1, Len(d))

----------------------------------------------------------------------------
(* OffsetList *)

OffsetList_init == [insertions |-> <<>>, removals |-> <<>>]

ol_insert(o, pos, length, slot) ==
    [o EXCEPT !.insertions = DictAdd(o.insertions, pos, length, slot)]

ol_remove(o, pos, length, slot) ==
    [o EXCEPT !.removals = DictAdd(o.removals, pos, length, slot)]

\* first loop of get_rewritten_pos, from entry i of the iteration on
RECURSIVE InsertionOffset(_, _, _)
InsertionOffset(d, pos, i) ==
    IF i > Len(d) THEN 0
    ELSE IF d[i].k > pos THEN 0
    ELSE d[i].v + InsertionOffset(d, pos, i + 1)

\* second loop of get_rewritten_pos breaking only beyond pos, as the first does
RECURSIVE RemovalOffset_through(_, _, _)
RemovalOffset_through(d, pos, i) ==
    IF i > Len(d) THEN 0
    ELSE IF d[i].k > pos THEN 0
    ELSE d[i].v + RemovalOffset_through(d, pos, i + 1)

\* second loop of get_rewritten_pos
RECURSIVE RemovalOffset(_, _, _)
RemovalOffset(d, pos, i) ==
    IF i > Len(d) THEN 0
    ELSE IF d[i].k >= pos THEN 0
    ELSE d[i].v + RemovalOffset(d, pos, i + 1)

\* offset + pos, the value get_rewritten_pos floors at 0
Unclamped(o, pos) ==
    InsertionOffset(o.insertions, pos, 1) - RemovalOffset(o.removals, pos, 1) + pos

get_rewritten_pos(o, pos) ==
    Max(InsertionOffset(o.insertions, pos, 1)
          - RemovalOffset(o.removals, pos, 1) + pos, 0)

get_insertion_length(o, pos) == DictGet(o.insertions, pos)

----------------------------------------------------------------------------
(* Rewriter.  A rewriter value is [lines, col_offs, col_lens]; an operation *)
(* yields [rw, err]: the rewriter it leaves and "none" or the exception it  *)
(* raised.                                                                  *)

Rewriter_init(buf) ==
    [lines    |-> buf,
     col_offs |-> [i \in 1..Len(buf) |-> OffsetList_init],
     col_lens |-> [i \in 1..Len(buf) |-> Len(buf[i])]]

Ok(rw) == [rw |-> rw, err |-> "none"]
Raise(rw, e) == [rw |-> rw, err |-> e]

\* canonicalize_column_index without its assert
canonicalize_raises_unchecked(rw, line, col) ==
    IF col >= 0 THEN "none"
    ELSE IF ListIndex(line, Len(rw.col_lens)) = 0 THEN "IndexError"
    ELSE "none"

\* the exception canonicalize_column_index raises, "none" when it returns
canonicalize_raises(rw, line, col) ==
    IF col >= 0 THEN "none"
    ELSE IF ListIndex(line, Len(rw.col_lens)) = 0 THEN "IndexError"
    ELSE IF col + rw.col_lens[ListIndex(line, Len(rw.col_lens))] + 1 < 0
         THEN "AssertionError"
    ELSE "none"

\* the value canonicalize_column_index returns
canonicalize_column_index(rw, line, col) ==
    IF col < 0
    THEN col + rw.col_lens[ListIndex(line, Len(rw.col_lens))] + 1
    ELSE col

\* is_in_range raises IndexError on self.col_lens[line]
is_in_range_raises(rw, line) ==
    /\ ~(line >= Len(rw.lines))
    /\ ListIndex(line, Len(rw.col_lens)) = 0

is_in_range(rw, line, col) ==
    IF line >= Len(rw.lines) THEN FALSE
    ELSE IF col > rw.col_lens[ListIndex(line, Len(rw.col_lens))] THEN FALSE
    ELSE TRUE

\* a splice that overwrites the character at adj_col
Splice_over(theline, adj_col, text) ==
    SliceTo(theline, adj_col) \o text \o SliceFrom(theline, adj_col + 1)

\* theline[:adj_col] + text + theline[adj_col:]
Splice(theline, adj_col, text) ==
    SliceTo(theline, adj_col) \o text \o SliceFrom(theline, adj_col)

\* adj_col of insert_before without the length already inserted at col
insert_before_adj_behind(col_off, col) == get_rewritten_pos(col_off, col)

\* adj_col of insert_before
insert_before_adj(col_off, col) ==
    get_rewritten_pos(col_off, col) - get_insertion_length(col_off, col)

\* adj_col of insert_after
insert_after_adj(col_off, col) == get_rewritten_pos(col_off, col)

\* an insertion that always edits the first line
InsertAt_first(rw, l, adj_col, text, col, slot) ==
    [rw EXCEPT !.lines[1] = Splice(rw.lines[1], adj_col, text),
               !.col_offs[1] = ol_insert(rw.col_offs[1], col, Len(text), slot)]

\* the part of insert_before / insert_after after adj_col is known
InsertAt(rw, l, adj_col, text, col, slot) ==
    [rw EXCEPT !.lines[l] = Splice(rw.lines[l], adj_col, text),
               !.col_offs[l] = ol_insert(rw.col_offs[l], col, Len(text), slot)]

insert_before(rw, text, line, col, slot) ==
    LET e == canonicalize_raises(rw, line, col)
        l == ListIndex(line, Len(rw.col_offs))
    IN  IF e # "none" THEN Raise(rw, e)
        ELSE IF l = 0 THEN Raise(rw, "IndexError")
        ELSE LET c == canonicalize_column_index(rw, line, col)
             IN  Ok(InsertAt(rw, l, insert_before_adj(rw.col_offs[l], c),
                             text, c, slot))

insert_after(rw, text, line, col, slot) ==
    LET e == canonicalize_raises(rw, line, col)
        l == ListIndex(line, Len(rw.col_offs))
    IN  IF e # "none" THEN Raise(rw, e)
        ELSE IF l = 0 THEN Raise(rw, "IndexError")
        ELSE LET c == canonicalize_column_index(rw, line, col)
             IN  Ok(InsertAt(rw, l, insert_after_adj(rw.col_offs[l], c),
                             text, c, slot))

\* the slots the key of an insertion at (line, col) may enter at
InsertSlots(rw, line, col) ==
    IF canonicalize_raises(rw, line, col) # "none"
         \/ ListIndex(line, Len(rw.col_offs)) = 0
    THEN {0}
    ELSE Slots(rw.col_offs[ListIndex(line, Len(rw.col_offs))].insertions,
               canonicalize_column_index(rw, line, col))

insert_before_results(rw, text, line, col) ==
    {insert_before(rw, text, line, col, slot) :
        slot \in InsertSlots(rw, line, col)}

insert_after_results(rw, text, line, col) ==
    {insert_after(rw, text, line, col, slot) :
        slot \in InsertSlots(rw, line, col)}

\* a cut that also takes the character at adj_to_col
Cut_through(theline, adj_from_col, adj_to_col) ==
    SliceTo(theline, adj_from_col) \o SliceFrom(theline, adj_to_col + 1)

\* theline[:adj_from_col] + theline[adj_to_col:]
Cut(theline, adj_from_col, adj_to_col) ==
    SliceTo(theline, adj_from_col) \o SliceFrom(theline, adj_to_col)

\* remove without the assert on the two line numbers
remove_unasserted(rw, from_line, from_col, to_line, to_col, slot) ==
    LET e1 == canonicalize_raises(rw, from_line, from_col)
        e2 == canonicalize_raises(rw, to_line, to_col)
        l  == ListIndex(from_line, Len(rw.col_offs))
    IN  IF e1 # "none" THEN Raise(rw, e1)
        ELSE IF e2 # "none" THEN Raise(rw, e2)
        ELSE IF l = 0 THEN Raise(rw, "IndexError")
        ELSE LET f == canonicalize_column_index(rw, from_line, from_col)
                 t == canonicalize_column_index(rw, to_line, to_col)
                 col_off == rw.col_offs[l]
             IN  Ok([rw EXCEPT
                       !.lines[l] = Cut(rw.lines[l],
                                        get_rewritten_pos(col_off, f),
                                        get_rewritten_pos(col_off, t)),
                       !.col_offs[l] = ol_remove(col_off, f, t - f, slot)])

remove(rw, from_line, from_col, to_line, to_col, slot) ==
    LET e1 == canonicalize_raises(rw, from_line, from_col)
        e2 == canonicalize_raises(rw, to_line, to_col)
        l  == ListIndex(from_line, Len(rw.col_offs))
    IN  IF from_line # to_line THEN Raise(rw, "AssertionError")
        ELSE IF e1 # "none" THEN Raise(rw, e1)
        ELSE IF e2 # "none" THEN Raise(rw, e2)
        ELSE IF l = 0 THEN Raise(rw, "IndexError")
        ELSE LET f == canonicalize_column_index(rw, from_line, from_col)
                 t == canonicalize_column_index(rw, to_line, to_col)
                 col_off == rw.col_offs[l]
             IN  Ok([rw EXCEPT
                       !.lines[l] = Cut(rw.lines[l],
                                        get_rewritten_pos(col_off, f),
                                        get_rewritten_pos(col_off, t)),
                       !.col_offs[l] = ol_remove(col_off, f, t - f, slot)])

RemoveSlots(rw, from_line, from_col, to_line, to_col) ==
    IF from_line # to_line
         \/ canonicalize_raises(rw, from_line, from_col) # "none"
         \/ canonicalize_raises(rw, to_line, to_col) # "none"
         \/ ListIndex(from_line, Len(rw.col_offs)) = 0
    THEN {0}
    ELSE Slots(rw.col_offs[ListIndex(from_line, Len(rw.col_offs))].removals,
               canonicalize_column_index(rw, from_line, from_col))

remove_results(rw, from_line, from_col, to_line, to_col) ==
    {remove(rw, from_line, from_col, to_line, to_col, slot) :
        slot \in RemoveSlots(rw, from_line, from_col, to_line, to_col)}

replace_results(rw, text, from_line, from_col, to_line, to_col) ==
    UNION {IF r.err # "none" THEN {r}
           ELSE insert_after_results(r.rw, text, from_line, from_col) :
             r \in remove_results(rw, from_line, from_col, to_line, to_col)}

----------------------------------------------------------------------------
(* HTMLAnnotationSet.  An entry of tags is [tag, attributes, extent]; an   *)
(* extent is [sl, sc, el, ec]: start.line, start.column, end.line and      *)
(* end.column in the analyzer's 1-indexed values.                          *)

EntireLineSourceLocation(line) == [sl |-> line, sc |-> 1, el |-> line, ec |-> 0]

add_tag(tgs, tag, attributes, extent) ==
    Append(tgs, [tag |-> tag, attributes |-> attributes, extent |-> extent])

\* ' '.join([a[0] + '="' + a[1] + '"' for a in attributes]), from entry i on
RECURSIVE JoinAttributes(_, _)
JoinAttributes(attributes, i) ==
    IF i > Len(attributes) THEN <<>>
    ELSE (IF i > 1 THEN <<" ">> ELSE <<>>)
         \o attributes[i][1] \o <<"=", "\"">> \o attributes[i][2] \o <<"\"">>
         \o JoinAttributes(attributes, i + 1)

start_tag(tag, attributes) ==
    <<"<">> \o tag
      \o (IF attributes # <<>>
          THEN <<" ">> \o JoinAttributes(attributes, 1) ELSE <<>>)
      \o <<">">>

end_tag(tag) == <<"<", "/">> \o tag \o <<">">>

\* the loop of apply from entry i of tags on
RECURSIVE apply_from(_, _, _)
apply_from(rw, tgs, i) ==
    IF i > Len(tgs) THEN {Ok(rw)}
    ELSE
      LET t == tgs[i]
          start_line == t.extent.sl - 1
          start_col  == t.extent.sc - 1
          end_line   == t.extent.el - 1
          end_col    == t.extent.ec - 1
      IN  IF is_in_range_raises(rw, start_line) THEN {Raise(rw, "IndexError")}
          ELSE IF ~is_in_range(rw, start_line, start_col)
               THEN apply_from(rw, tgs, i + 1)
          ELSE IF is_in_range_raises(rw, end_line)
               THEN {Raise(rw, "IndexError")}
          ELSE IF ~is_in_range(rw, end_line, end_col)
               THEN apply_from(rw, tgs, i + 1)
          ELSE UNION {
                 IF r.err # "none" THEN {r}
                 ELSE UNION {
                        IF q.err # "none" THEN {q}
                        ELSE apply_from(q.rw, tgs, i + 1) :
                          q \in insert_after_results(r.rw, end_tag(t.tag),
                                                     end_line, end_col)} :
                   r \in insert_before_results(
                           rw, start_tag(t.tag, t.attributes),
                           start_line, start_col)}

apply(rw, tgs) == apply_from(rw, tgs, 1)

----------------------------------------------------------------------------
(* sanitize_code_as_html *)

\* [m.start() for m in re.finditer(ch, text)], from column col on
RECURSIVE FindAll(_, _, _)
FindAll(text, ch, col) ==
    IF col >= Len(text) THEN <<>>
    ELSE (IF text[col + 1] = ch THEN <<col>> ELSE <<>>)
         \o FindAll(text, ch, col + 1)

\* the tuples appended for the matches cols[i..] of one character on a line
RECURSIVE ReplacementsAt(_, _, _, _)
ReplacementsAt(text, line, cols, i) ==
    IF i > Len(cols) THEN <<>>
    ELSE <<[text |-> text, from_line |-> line, from_col |-> cols[i],
            to_line |-> line, to_col |-> cols[i] + 1]>>
         \o ReplacementsAt(text, line, cols, i + 1)

\* the replacements list built by the first loop, from line `line` on
RECURSIVE Replacements(_, _)
Replacements(lns, line) ==
    IF line >= Len(lns) THEN <<>>
    ELSE ReplacementsAt(<<"&", "l", "t", ";">>, line,
                        FindAll(lns[line + 1], "<", 0), 1)
         \o ReplacementsAt(<<"&", "g", "t", ";">>, line,
                           FindAll(lns[line + 1], ">", 0), 1)
         \o Replacements(lns, line + 1)

\* the second loop, from entry i of replacements on
RECURSIVE replace_all(_, _, _)
replace_all(rw, replacements, i) ==
    IF i > Len(replacements) THEN {Ok(rw)}
    ELSE LET p == replacements[i]
         IN  UNION {IF r.err # "none" THEN {r}
                    ELSE replace_all(r.rw, replacements, i + 1) :
                      r \in replace_results(rw, p.text, p.from_line, p.from_col,
                                            p.to_line, p.to_col)}

sanitize_code_as_html(rw) == replace_all(rw, Replacements(rw.lines, 0), 1)

----------------------------------------------------------------------------
(* restserver.py: CodeViewer and the routes /api/sources and                *)
(* /api/sources/<idx>.  An answer is [request, idx, status, id, filename,   *)
(* listing].                                                                *)

NoResponse ==
    [request |-> "none", idx |-> 0, status |-> "none", id |-> 0,
     filename |-> "", listing |-> <<>>]

\* self.sources[idx] raises IndexError
id_to_filename_raises(srcs, idx) == ListIndex(idx, Len(srcs)) = 0

id_to_filename(srcs, idx) == srcs[ListIndex(idx, Len(srcs))]

\* self.filenames_to_ids[f], built by {src: i for i, src in enumerate(sources)}:
\* the last index at which f stands
filename_to_id(srcs, f) ==
    CHOOSE i \in 0..(Len(srcs) - 1) :
        /\ srcs[i + 1] = f
        /\ \A j \in 0..(Len(srcs) - 1) : srcs[j + 1] = f => j <= i

api_sources(srcs) ==
    [request |-> "api_sources", idx |-> 0, status |-> "OK", id |-> 0,
     filename |-> "",
     listing |-> [k \in 1..Len(srcs) |->
                    [id |-> filename_to_id(srcs, srcs[k]), filename |-> srcs[k]]]]

api_show_source(srcs, idx) ==
    IF id_to_filename_raises(srcs, idx)
    THEN [request |-> "api_show_source", idx |-> idx, status |-> "NotFound",
          id |-> 0, filename |-> "", listing |-> <<>>]
    ELSE [request |-> "api_show_source", idx |-> idx, status |-> "OK",
          id |-> idx, filename |-> id_to_filename(srcs, idx), listing |-> <<>>]

----------------------------------------------------------------------------
(* Direct use of one OffsetList *)

InitOL ==
    /\ ol = OffsetList_init
    /\ args = <<>>
    /\ split = <<>>
    /\ diagnostics = <<>>
    /\ sources = <<>>
    /\ resp = NoResponse
    /\ lines = <<>>
    /\ col_offs = <<>>
    /\ col_lens = <<>>
    /\ tags = <<>>
    /\ orig = <<>>
    /\ hist = <<>>
    /\ err = "none"

OLInsert ==
    \E pos \in 0..MaxPos, length \in 1..2 :
      \E slot \in Slots(ol.insertions, pos) :
        /\ Len(hist) < MaxOLOps
        /\ ol' = ol_insert(ol, pos, length, slot)
        /\ hist' = Append(hist, [op |-> "insert", pos |-> pos])
        /\ UNCHANGED <<sources, resp, diagnostics, args, split, lines, col_offs, col_lens, tags, orig, err>>

OLRemove ==
    \E pos \in 0..MaxPos, length \in 1..2 :
      \E slot \in Slots(ol.removals, pos) :
        /\ Len(hist) < MaxOLOps
        /\ ol' = ol_remove(ol, pos, length, slot)
        /\ hist' = Append(hist, [op |-> "remove", pos |-> pos])
        /\ UNCHANGED <<sources, resp, diagnostics, args, split, lines, col_offs, col_lens, tags, orig, err>>

NextOL == OLInsert \/ OLRemove

SpecOL == InitOL /\ [][NextOL]_vars

----------------------------------------------------------------------------
(* Formatting one file: add_tag calls, then sanitize_code_as_html and      *)
(* HTMLAnnotationSet.apply on a Rewriter of the file (format_source runs   *)
(* both; each is also callable alone).                                     *)

RW == [lines |-> lines, col_offs |-> col_offs, col_lens |-> col_lens]

\* the state an operation that yields r leaves
Becomes(r) ==
    /\ lines' = r.rw.lines
    /\ col_offs' = r.rw.col_offs
    /\ col_lens' = r.rw.col_lens
    /\ err' = r.err

Chars == {"a", "<", ">"}

LinesUpTo(n) == UNION {[1..k -> Chars] : k \in 0..n}

Buffers ==
    {<<>>} \cup {<<l>> : l \in LinesUpTo(MaxLen)}
           \cup {<<l1, l2>> : l1 \in {<<>>, <<"<">>}, l2 \in {<<>>, <<"a">>}}

Extent(sl, sc, el, ec) == [sl |-> sl, sc |-> sc, el |-> el, ec |-> ec]

B(extent) == [tag |-> <<"b">>, attributes |-> <<>>, extent |-> extent]

I(extent) ==
    [tag |-> <<"i">>, attributes |-> << <<(<<"c">>), (<<"v">>)>> >>,
     extent |-> extent]

\* the annotation requests the analyzer may make
Annotations ==
    {B(Extent(1, 1, 1, 2)), I(Extent(1, 1, 1, 2)), I(Extent(1, 1, 1, 3)),
     B(Extent(1, 2, 1, 3)), I(Extent(1, 2, 1, 2)),
     B(EntireLineSourceLocation(1)), I(EntireLineSourceLocation(2)),
     B(Extent(0, 1, 0, 2)), I(Extent(1, 1, 1, 9)),
     B(Extent(1, -1, 1, 1)), I(Extent(1, 1, 1, -9)),
     B(Extent(1, 1, 2, 1))}

InitFmt ==
    \E buf \in Buffers :
        /\ lines = Rewriter_init(buf).lines
        /\ col_offs = Rewriter_init(buf).col_offs
        /\ col_lens = Rewriter_init(buf).col_lens
        /\ orig = buf
        /\ tags = <<>>
        /\ hist = <<>>
        /\ err = "none"
        /\ ol = OffsetList_init
        /\ args = <<>>
        /\ split = <<>>
        /\ diagnostics = <<>>
        /\ sources = <<>>
        /\ resp = NoResponse

AddTag ==
    \E t \in Annotations :
        /\ hist = <<>>
        /\ Len(tags) < MaxTags
        /\ tags' = add_tag(tags, t.tag, t.attributes, t.extent)
        /\ UNCHANGED <<sources, resp, diagnostics, args, split, ol, lines, col_offs, col_lens, orig, hist, err>>

Sanitize ==
    /\ hist = <<>>
    /\ \E r \in sanitize_code_as_html(RW) : Becomes(r)
    /\ hist' = Append(hist, [op |-> "sanitize", before |-> RW])
    /\ UNCHANGED <<sources, resp, diagnostics, args, split, ol, tags, orig>>

Apply ==
    /\ err = "none"
    /\ \A i \in 1..Len(hist) : hist[i].op # "apply"
    /\ \E r \in apply(RW, tags) : Becomes(r)
    /\ hist' = Append(hist, [op |-> "apply", before |-> RW])
    /\ UNCHANGED <<sources, resp, diagnostics, args, split, ol, tags, orig>>

NextFmt == AddTag \/ Sanitize \/ Apply

SpecFmt == InitFmt /\ [][NextFmt]_vars

----------------------------------------------------------------------------
(* A Rewriter edited directly: any sequence of insert_before, insert_after, *)
(* remove and replace calls with columns of the original line.  The lines   *)
(* of the buffer are made of distinct digits, the inserted texts of         *)
(* letters, so that original characters are told from inserted ones.        *)

Digits == <<"0", "1", "2", "3", "4", "5", "6", "7", "8", "9">>

EditedBuffers == {<<SubSeq(Digits, 1, n)>> : n \in 0..MaxEditLen}

Texts == {<<"x">>, <<"y", "z">>}

\* the line numbers of the buffer
LineNumbers == 0..(Len(orig) - 1)

\* the columns of a line: 0..length
Columns(line) == 0..Len(orig[line + 1])

\* the columns of a line and -1, its end
InsertColumns(line) == Columns(line) \cup {-1}

\* the record of a call in hist
Call(op, text, line, col, to_col) ==
    [op |-> op, text |-> text, line |-> line, col |-> col, to_col |-> to_col,
     before |-> RW]

InitEdit ==
    \E buf \in EditedBuffers :
        /\ lines = Rewriter_init(buf).lines
        /\ col_offs = Rewriter_init(buf).col_offs
        /\ col_lens = Rewriter_init(buf).col_lens
        /\ orig = buf
        /\ tags = <<>>
        /\ hist = <<>>
        /\ err = "none"
        /\ ol = OffsetList_init
        /\ args = <<>>
        /\ split = <<>>
        /\ diagnostics = <<>>
        /\ sources = <<>>
        /\ resp = NoResponse

InsertBefore ==
    \E text \in Texts, line \in LineNumbers :
      \E col \in InsertColumns(line) :
        /\ err = "none" /\ Len(hist) < MaxOps
        /\ \E r \in insert_before_results(RW, text, line, col) : Becomes(r)
        /\ hist' = Append(hist, Call("insert_before", text, line, col, col))
        /\ UNCHANGED <<sources, resp, diagnostics, args, split, ol, tags, orig>>

InsertAfter ==
    \E text \in Texts, line \in LineNumbers :
      \E col \in InsertColumns(line) :
        /\ err = "none" /\ Len(hist) < MaxOps
        /\ \E r \in insert_after_results(RW, text, line, col) : Becomes(r)
        /\ hist' = Append(hist, Call("insert_after", text, line, col, col))
        /\ UNCHANGED <<sources, resp, diagnostics, args, split, ol, tags, orig>>

Remove ==
    \E line \in LineNumbers :
      \E from_col \in Columns(line), to_col \in Columns(line) :
        /\ err = "none" /\ Len(hist) < MaxOps
        /\ from_col <= to_col
        /\ \E r \in remove_results(RW, line, from_col, line, to_col) :
              Becomes(r)
        /\ hist' = Append(hist, Call("remove", <<>>, line, from_col, to_col))
        /\ UNCHANGED <<sources, resp, diagnostics, args, split, ol, tags, orig>>

Replace ==
    \E text \in Texts, line \in LineNumbers :
      \E from_col \in Columns(line), to_col \in Columns(line) :
        /\ err = "none" /\ Len(hist) < MaxOps
        /\ from_col <= to_col
        /\ \E r \in replace_results(RW, text, line, from_col, line, to_col) :
              Becomes(r)
        /\ hist' = Append(hist, Call("replace", text, line, from_col, to_col))
        /\ UNCHANGED <<sources, resp, diagnostics, args, split, ol, tags, orig>>

NextEdit == InsertBefore \/ InsertAfter \/ Remove \/ Replace

SpecEdit == InitEdit /\ [][NextEdit]_vars

\* insertions alone
NextInsert == InsertBefore \/ InsertAfter

SpecInsert == InitEdit /\ [][NextInsert]_vars

----------------------------------------------------------------------------
(* A Rewriter of two lines called with any arguments: line numbers that     *)
(* differ, columns below the wrap-around range, from_col > to_col, an empty *)
(* replacement text.  A call that raises ends the run.                      *)

CalledBuffers == {<< <<"0">>, <<"1", "2">> >>}

CalledTexts == {<<>>, <<"x">>}

\* the columns of a line and one column below -(length + 1)
CallColumns(line) == Columns(line) \cup {0 - (Len(orig[line + 1]) + 2)}

\* the record of a call that names two lines
CallOn(op, text, from_line, from_col, to_line, to_col) ==
    [op |-> op, text |-> text, line |-> from_line, col |-> from_col,
     to_line |-> to_line, to_col |-> to_col, before |-> RW]

InitCalls ==
    \E buf \in CalledBuffers :
        /\ lines = Rewriter_init(buf).lines
        /\ col_offs = Rewriter_init(buf).col_offs
        /\ col_lens = Rewriter_init(buf).col_lens
        /\ orig = buf
        /\ tags = <<>>
        /\ hist = <<>>
        /\ err = "none"
        /\ ol = OffsetList_init
        /\ args = <<>>
        /\ split = <<>>
        /\ diagnostics = <<>>
        /\ sources = <<>>
        /\ resp = NoResponse

CallInsertBefore ==
    \E line \in LineNumbers :
      \E col \in CallColumns(line) :
        /\ err = "none" /\ Len(hist) < MaxOps
        /\ \E r \in insert_before_results(RW, <<"x">>, line, col) : Becomes(r)
        /\ hist' = Append(hist, CallOn("insert_before", <<"x">>, line, col,
                                       line, col))
        /\ UNCHANGED <<sources, resp, diagnostics, args, split, ol, tags, orig>>

CallInsertAfter ==
    \E line \in LineNumbers :
      \E col \in CallColumns(line) :
        /\ err = "none" /\ Len(hist) < MaxOps
        /\ \E r \in insert_after_results(RW, <<"x">>, line, col) : Becomes(r)
        /\ hist' = Append(hist, CallOn("insert_after", <<"x">>, line, col,
                                       line, col))
        /\ UNCHANGED <<sources, resp, diagnostics, args, split, ol, tags, orig>>

CallRemove ==
    \E from_line \in LineNumbers, to_line \in LineNumbers :
      \E from_col \in CallColumns(from_line), to_col \in CallColumns(to_line) :
        /\ err = "none" /\ Len(hist) < MaxOps
        /\ \E r \in remove_results(RW, from_line, from_col, to_line, to_col) :
              Becomes(r)
        /\ hist' = Append(hist, CallOn("remove", <<>>, from_line, from_col,
                                       to_line, to_col))
        /\ UNCHANGED <<sources, resp, diagnostics, args, split, ol, tags, orig>>

CallReplace ==
    \E text \in CalledTexts, from_line \in LineNumbers, to_line \in LineNumbers :
      \E from_col \in CallColumns(from_line), to_col \in CallColumns(to_line) :
        /\ err = "none" /\ Len(hist) < MaxOps
        /\ \E r \in replace_results(RW, text, from_line, from_col,
                                    to_line, to_col) : Becomes(r)
        /\ hist' = Append(hist, CallOn("replace", text, from_line, from_col,
                                       to_line, to_col))
        /\ UNCHANGED <<sources, resp, diagnostics, args, split, ol, tags, orig>>

NextCalls == CallInsertBefore \/ CallInsertAfter \/ CallRemove \/ CallReplace

SpecCalls == InitCalls /\ [][NextCalls]_vars

----------------------------------------------------------------------------
(* split_args on an argument list *)

\* [i for i, x in enumerate(args) if x == '--'], from index i on
RECURSIVE double_dash_pos(_, _)
double_dash_pos(a, i) ==
    IF i >= Len(a) THEN <<>>
    ELSE (IF a[i + 1] = "--" THEN <<i>> ELSE <<>>) \o double_dash_pos(a, i + 1)

\* split_args taking the last '--'
split_args_last(a) ==
    LET pos == double_dash_pos(a, 0)
    IN  IF pos = <<>> THEN <<a, <<>> >>
        ELSE <<SliceTo(a, pos[Len(pos)]), SliceFrom(a, pos[Len(pos)] + 1)>>

split_args(a) ==
    LET pos == double_dash_pos(a, 0)
    IN  IF pos = <<>> THEN <<a, <<>> >>
        ELSE <<SliceTo(a, pos[1]), SliceFrom(a, pos[1] + 1)>>

Arguments == {"--", "-o", "f"}

ArgLists == UNION {[1..n -> Arguments] : n \in 0..MaxArgs}

InitArgs ==
    /\ args \in ArgLists
    /\ split = <<>>
    /\ diagnostics = <<>>
    /\ sources = <<>>
    /\ resp = NoResponse
    /\ ol = OffsetList_init
    /\ lines = <<>>
    /\ col_offs = <<>>
    /\ col_lens = <<>>
    /\ tags = <<>>
    /\ orig = <<>>
    /\ hist = <<>>
    /\ err = "none"

SplitArgs ==
    /\ split = <<>>
    /\ split' = split_args(args)
    /\ UNCHANGED <<sources, resp, diagnostics, args, ol, lines, col_offs, col_lens, tags, orig, hist, err>>

NextArgs == SplitArgs

SpecArgs == InitArgs /\ [][NextArgs]_vars

----------------------------------------------------------------------------
(* Rendering of a tag: one add_tag call with any attribute list, then       *)
(* HTMLAnnotationSet.apply on a Rewriter of one line.                       *)

AttributeNames == {<<"c">>, <<"t">>}

AttributeValues == {<<"v">>, <<"\"">>, <<"<">>, <<"v", ">">>}

\* the (name, value) pairs
Attributes == {<<n, v>> : n \in AttributeNames, v \in AttributeValues}

AttributeLists == UNION {[1..n -> Attributes] : n \in 0..MaxAttrs}

InitRender ==
    /\ lines = Rewriter_init(<< <<"a">> >>).lines
    /\ col_offs = Rewriter_init(<< <<"a">> >>).col_offs
    /\ col_lens = Rewriter_init(<< <<"a">> >>).col_lens
    /\ orig = << <<"a">> >>
    /\ tags = <<>>
    /\ hist = <<>>
    /\ err = "none"
    /\ ol = OffsetList_init
    /\ args = <<>>
    /\ split = <<>>
    /\ diagnostics = <<>>
    /\ sources = <<>>
    /\ resp = NoResponse

AddAttributedTag ==
    \E attributes \in AttributeLists :
        /\ hist = <<>> /\ tags = <<>>
        /\ tags' = add_tag(tags, <<"b">>, attributes, Extent(1, 1, 1, 2))
        /\ UNCHANGED <<sources, resp, diagnostics, args, split, ol, lines, col_offs, col_lens, orig, hist, err>>

NextRender == AddAttributedTag \/ Apply

SpecRender == InitRender /\ [][NextRender]_vars

----------------------------------------------------------------------------
(* highlight_diagnostics on the diagnostics of one file.  A set and a dict  *)
(* are iterated in an order the language leaves open: every order is taken. *)

\* the sequences that list every element of S once
Orders(S) ==
    {f \in [1..Cardinality(S) -> S] :
        \A i, j \in 1..Cardinality(S) : i # j => f[i] # f[j]}

\* diag_class when the loop over the diagnostics ds of a line ends, entered
\* at element i with most_severe_class
RECURSIVE diag_class_after(_, _, _)
diag_class_after(ds, i, most_severe_class) ==
    IF i > Len(ds) THEN ds[Len(ds)][1]
    ELSE IF most_severe_class = "None"
         THEN diag_class_after(ds, i + 1, ds[i][1])
    ELSE IF ds[i][1] = <<"error">> THEN ds[i][1]
    ELSE diag_class_after(ds, i + 1, most_severe_class)

\* most_severe_class when that loop ends
RECURSIVE most_severe_class_after(_, _, _)
most_severe_class_after(ds, i, most_severe_class) ==
    IF i > Len(ds) THEN most_severe_class
    ELSE IF most_severe_class = "None"
         THEN most_severe_class_after(ds, i + 1, ds[i][1])
    ELSE IF ds[i][1] = <<"error">> THEN ds[i][1]
    ELSE most_severe_class_after(ds, i + 1, most_severe_class)

\* the value given for the class attribute
span_class(ds) == diag_class_after(ds, 1, "None")

\* '<br />'.join([diag[0] + ': ' + diag[1] for diag in diags]), from i on
RECURSIVE messages(_, _)
messages(ds, i) ==
    IF i > Len(ds) THEN <<>>
    ELSE (IF i > 1 THEN <<"<", "b", "r", " ", "/", ">">> ELSE <<>>)
         \o ds[i][1] \o <<":", " ">> \o ds[i][2] \o messages(ds, i + 1)

\* the body of the loop for one line, its diagnostics iterated as ds
highlight_line(tgs, line, ds) ==
    add_tag(tgs, <<"s", "p", "a", "n">>,
            << <<(<<"class">>), span_class(ds)>>,
               <<(<<"title">>), messages(ds, 1)>> >>,
            EntireLineSourceLocation(line))

\* the loop over the lines in the order line_order, from entry i on
RECURSIVE highlight_from(_, _, _, _)
highlight_from(diags, tgs, line_order, i) ==
    IF i > Len(line_order) THEN {tgs}
    ELSE UNION {highlight_from(diags,
                               highlight_line(tgs, line_order[i], ds),
                               line_order, i + 1) :
                  ds \in Orders(diags[line_order[i]])}

highlight_diagnostics(diags, tgs) ==
    UNION {highlight_from(diags, tgs, line_order, 1) :
             line_order \in Orders(DOMAIN diags)}

DiagClasses == {<<"error">>, <<"warning">>}

DiagMessages == {<<"m">>, <<"n">>}

\* the (diag_class, message) tuples
Diags == {<<c, m>> : c \in DiagClasses, m \in DiagMessages}

\* the sets of diagnostics a line may have
DiagSets ==
    {S \in SUBSET Diags : S # {} /\ Cardinality(S) <= MaxDiags}

DiagLines == {1, 2}

InitDiag ==
    /\ \E L \in SUBSET DiagLines : diagnostics \in [L -> DiagSets]
    /\ sources = <<>>
    /\ resp = NoResponse
    /\ tags = <<>>
    /\ hist = <<>>
    /\ err = "none"
    /\ lines = <<>>
    /\ col_offs = <<>>
    /\ col_lens = <<>>
    /\ orig = <<>>
    /\ ol = OffsetList_init
    /\ args = <<>>
    /\ split = <<>>

HighlightDiagnostics ==
    /\ hist = <<>>
    /\ tags' \in highlight_diagnostics(diagnostics, tags)
    /\ hist' = <<[op |-> "highlight_diagnostics"]>>
    /\ UNCHANGED <<sources, resp, diagnostics, args, split, ol, lines, col_offs, col_lens,
                   orig, err>>

NextDiag == HighlightDiagnostics

SpecDiag == InitDiag /\ [][NextDiag]_vars

----------------------------------------------------------------------------
(* Requests to the REST server of an input directory *)

Filenames == {"a.c", "b.c", "c.h"}

\* get_source_file_list: the files of the directory, each once, in any order
SourceLists ==
    {f \in UNION {[1..n -> Filenames] : n \in 0..MaxSources} :
        \A i, j \in 1..Len(f) : i # j => f[i] # f[j]}

\* the integers a request may name
RequestedIds == (0 - (MaxSources + 1))..(MaxSources + 1)

InitRest ==
    /\ sources \in SourceLists
    /\ resp = NoResponse
    /\ diagnostics = <<>>
    /\ tags = <<>>
    /\ hist = <<>>
    /\ err = "none"
    /\ lines = <<>>
    /\ col_offs = <<>>
    /\ col_lens = <<>>
    /\ orig = <<>>
    /\ ol = OffsetList_init
    /\ args = <<>>
    /\ split = <<>>

ApiSources ==
    /\ resp' = api_sources(sources)
    /\ UNCHANGED <<sources, diagnostics, args, split, ol, lines, col_offs,
                   col_lens, tags, orig, hist, err>>

ApiShowSource ==
    \E idx \in RequestedIds :
        /\ resp' = api_show_source(sources, idx)
        /\ UNCHANGED <<sources, diagnostics, args, split, ol, lines, col_offs,
                       col_lens, tags, orig, hist, err>>

NextRest == ApiSources \/ ApiShowSource

SpecRest == InitRest /\ [][NextRest]_vars

----------------------------------------------------------------------------
(* C1 *)

RECURSIVE SumWhere(_, _, _)
\* sum of the values recorded at the keys of d that are <= bound
SumWhere(d, bound, i) ==
    IF i > Len(d) THEN 0
    ELSE (IF d[i].k <= bound THEN d[i].v ELSE 0) + SumWhere(d, bound, i + 1)

RewrittenFormula(o, pos) ==
    Max(0, pos + SumWhere(o.insertions, pos, 1)
               - SumWhere(o.removals, pos - 1, 1))

\* C1: in every OffsetList state reached by insert and remove calls in any
\* order of positions, get_rewritten_pos(pos) is max(0, pos + inserted
\* lengths at keys <= pos - removed lengths at keys < pos), for every pos.
C1_RewrittenIsFormula ==
    \A pos \in 0..MaxPos :
        get_rewritten_pos(ol, pos) = RewrittenFormula(ol, pos)

----------------------------------------------------------------------------
(* C2 *)

\* the text with each '<' replaced by "&lt;" and each '>' by "&gt;"
RECURSIVE Escape(_)
Escape(text) ==
    IF text = <<>> THEN <<>>
    ELSE (CASE Head(text) = "<" -> <<"&", "l", "t", ";">>
            [] Head(text) = ">" -> <<"&", "g", "t", ";">>
            [] OTHER -> <<Head(text)>>)
         \o Escape(Tail(text))

Called(op) == \E i \in 1..Len(hist) : hist[i].op = op

\* the rewriter was sanitized and nothing else was done to it
JustSanitized == Len(hist) = 1 /\ hist[1].op = "sanitize" /\ err = "none"

\* C2: after sanitize_code_as_html on a freshly constructed Rewriter every
\* line is its original line with each '<' replaced by "&lt;" and each '>'
\* by "&gt;", every other character unchanged and in the same order.
C2_SanitizeEscapes ==
    JustSanitized =>
        \A l \in 1..Len(orig) : lines[l] = Escape(orig[l])

----------------------------------------------------------------------------
(* C3 *)

\* sanitize ran, left every line escaped, and apply then ran to its end
SanitizedThenApplied ==
    /\ Len(hist) = 2 /\ hist[1].op = "sanitize" /\ hist[2].op = "apply"
    /\ err = "none"
    /\ \A l \in 1..Len(orig) : hist[2].before.lines[l] = Escape(orig[l])

\* a 1-indexed end-exclusive range [sc, ec) of characters of line sl
InRangeOnOneLine(x) ==
    /\ x.sl = x.el
    /\ x.sl \in 1..Len(orig)
    /\ 1 <= x.sc /\ x.sc <= x.ec /\ x.ec <= Len(orig[x.sl]) + 1

\* the line with the tags of t around the characters sc..ec-1 of the text
Wrapped(text, t) ==
    Escape(SubSeq(text, 1, t.extent.sc - 1))
      \o start_tag(t.tag, t.attributes)
      \o Escape(SubSeq(text, t.extent.sc, t.extent.ec - 1))
      \o end_tag(t.tag)
      \o Escape(SubSeq(text, t.extent.ec, Len(text)))

\* C3: a single in-range annotation [start, end) on one line, applied to a
\* sanitized rewriter, puts its tags around exactly the escaped text of the
\* original characters start..end-1: the character at the exclusive end
\* column stays outside the tag.
C3_EndColumnOutsideTag ==
    (SanitizedThenApplied /\ Len(tags) = 1 /\ InRangeOnOneLine(tags[1].extent))
        => lines[tags[1].extent.sl] = Wrapped(orig[tags[1].extent.sl], tags[1])

----------------------------------------------------------------------------
(* C7 *)

\* a 1-indexed coordinate outside the original buffer: no such line, or a
\* column past the original length of the line or below the column 0 of a
\* whole-line pseudo-range
OutsideBuffer(line, col) ==
    \/ line \notin 1..Len(orig)
    \/ col - 1 > Len(orig[line])
    \/ col < 0

OutsideAnnotation(t) ==
    \/ OutsideBuffer(t.extent.sl, t.extent.sc)
    \/ OutsideBuffer(t.extent.el, t.extent.ec)

InsideAnnotation(t) == ~OutsideAnnotation(t)

\* apply has run (to its end or to an exception) as the last call
Applied == hist # <<>> /\ hist[Len(hist)].op = "apply"

\* C7: apply does not fail on annotations with a coordinate outside the
\* original buffer, inserts neither tag of such an annotation and applies
\* every other annotation: it leaves what applying only the annotations
\* inside the buffer leaves.
C7_OutsideAnnotationsSkipped ==
    (Applied /\ \E i \in 1..Len(tags) : OutsideAnnotation(tags[i]))
        => /\ err = "none"
           /\ \E r \in apply(hist[Len(hist)].before,
                             SelectSeq(tags, InsideAnnotation)) :
                 r.err = "none" /\ r.rw = RW

----------------------------------------------------------------------------
(* C8 *)

\* the least 1-based index at which pat occurs in text, 0 when it does not
IndexOf(text, pat) ==
    LET at == {i \in 1..(Len(text) - Len(pat) + 1) :
                  SubSeq(text, i, i + Len(pat) - 1) = pat}
    IN  IF at = {} THEN 0 ELSE CHOOSE i \in at : \A j \in at : i <= j

\* two annotations with different tags that open at the same original column
\* were buffered, and apply ran to its end
TwoOpenAtSameColumn ==
    /\ Applied /\ err = "none"
    /\ Len(tags) = 2
    /\ InsideAnnotation(tags[1]) /\ InsideAnnotation(tags[2])
    /\ tags[1].extent.sl = tags[2].extent.sl
    /\ tags[1].extent.sc = tags[2].extent.sc
    /\ tags[1].tag # tags[2].tag

OpenIndex(i) ==
    IndexOf(lines[tags[i].extent.sl], start_tag(tags[i].tag, tags[i].attributes))

\* C8 as claimed: of two annotations that open at the same original column
\* the one added first is the outer one, its opening tag comes first.
C8_FirstAddedIsOuter ==
    TwoOpenAtSameColumn => (OpenIndex(1) > 0 /\ OpenIndex(1) < OpenIndex(2))

----------------------------------------------------------------------------
(* C9 *)

\* one whole-line annotation of an existing line was buffered and apply ran
OneWholeLine ==
    /\ Applied
    /\ Len(tags) = 1
    /\ tags[1].extent.sl \in 1..Len(orig)
    /\ tags[1].extent = EntireLineSourceLocation(tags[1].extent.sl)

\* C9: a whole-line annotation applied to a fresh or to a sanitized rewriter
\* leaves the opening tag, the whole content the line had, the closing tag.
C9_WholeLineWrapped ==
    OneWholeLine =>
        /\ err = "none"
        /\ lines[tags[1].extent.sl] =
             start_tag(tags[1].tag, tags[1].attributes)
               \o hist[Len(hist)].before.lines[tags[1].extent.sl]
               \o end_tag(tags[1].tag)

----------------------------------------------------------------------------
(* C4, C5 *)

\* the original column a column of a call denotes
OriginalColumn(line, col) ==
    IF col < 0 THEN col + Len(orig[line + 1]) + 1 ELSE col

\* every call so far was an insertion on line 0
OnlyInsertions ==
    /\ err = "none"
    /\ \A i \in 1..Len(hist) :
          hist[i].op \in {"insert_before", "insert_after"} /\ hist[i].line = 0

\* the block of inserted text the calls hist[i..] build at original column c,
\* given the block built so far: insert_before adds at its front,
\* insert_after at its back
RECURSIVE Block(_, _, _)
Block(c, i, block) ==
    IF i > Len(hist) THEN block
    ELSE IF OriginalColumn(hist[i].line, hist[i].col) # c
         THEN Block(c, i + 1, block)
    ELSE IF hist[i].op = "insert_before"
         THEN Block(c, i + 1, hist[i].text \o block)
    ELSE Block(c, i + 1, block \o hist[i].text)

\* the original text from column c on, with each block before the original
\* character of its column
RECURSIVE WithBlocks(_, _)
WithBlocks(text, c) ==
    Block(c, 1, <<>>)
      \o (IF c >= Len(text) THEN <<>>
          ELSE <<text[c + 1]>> \o WithBlocks(text, c + 1))

\* C4: insertions at pairwise distinct original columns of one line leave
\* the same text in whatever order they are issued: each text before the
\* original character of its column.
C4_DistinctColumnsCommute ==
    (/\ OnlyInsertions
     /\ \A i, j \in 1..Len(hist) :
           i # j => OriginalColumn(0, hist[i].col) # OriginalColumn(0, hist[j].col))
        => lines[1] = WithBlocks(orig[1], 0)

\* C5: insert_before and insert_after calls at one original column of a line
\* without other edits build one block immediately before the original
\* character of the column; insert_before adds at the front of the block
\* (LIFO), insert_after at its back (FIFO).
C5_SameColumnBlock ==
    (/\ OnlyInsertions
     /\ \A i, j \in 1..Len(hist) :
           OriginalColumn(0, hist[i].col) = OriginalColumn(0, hist[j].col))
        => lines[1] = WithBlocks(orig[1], 0)

C5_Witness ==
    /\ OnlyInsertions
    /\ Len(hist) = MaxOps
    /\ Len(orig[1]) > 1
    /\ \A i \in 1..Len(hist) : hist[i].col = 1
    /\ hist[1].op = "insert_before" /\ hist[2].op = "insert_before"
    /\ hist[3].op = "insert_after"
    /\ hist[1].text # hist[2].text
    /\ lines[1] = <<orig[1][1]>> \o hist[2].text \o hist[1].text \o hist[3].text
                    \o SubSeq(orig[1], 2, Len(orig[1]))

----------------------------------------------------------------------------
(* C6 *)

FromColumn(i) == OriginalColumn(hist[i].line, hist[i].col)
ToColumn(i) == OriginalColumn(hist[i].line, hist[i].to_col)

\* every call so far was a replace of a range of characters of line 0, the
\* ranges pairwise disjoint and the calls in ascending column order
AscendingReplaces ==
    /\ err = "none"
    /\ \A i \in 1..Len(hist) :
          /\ hist[i].op = "replace" /\ hist[i].line = 0
          /\ FromColumn(i) < ToColumn(i)
    /\ \A i \in 1..(Len(hist) - 1) : ToColumn(i) <= FromColumn(i + 1)

\* the original text from column c on with the ranges of the calls hist[i..]
\* substituted by their texts
RECURSIVE Substituted(_, _, _)
Substituted(text, i, c) ==
    IF i > Len(hist) THEN SubSeq(text, c + 1, Len(text))
    ELSE SubSeq(text, c + 1, FromColumn(i)) \o hist[i].text
           \o Substituted(text, i + 1, ToColumn(i))

\* C6: replace calls on one line with pairwise disjoint original ranges,
\* issued in ascending column order, leave the original line with each range
\* substituted by its replacement text.
C6_AscendingReplacesSubstitute ==
    AscendingReplaces => lines[1] = Substituted(orig[1], 1, 0)

----------------------------------------------------------------------------
(* C10 *)

IsOriginal(ch) == \E i \in 1..Len(Digits) : Digits[i] = ch

\* the last call inserted a text at column -1 of a line
InsertedAtEnd ==
    /\ hist # <<>> /\ err = "none"
    /\ hist[Len(hist)].op \in {"insert_before", "insert_after"}
    /\ hist[Len(hist)].col = -1

\* text was put into line `before` at a place with no original character
\* to its right, giving line `after`
LandsAfterOriginals(before, text, after) ==
    \E k \in 0..Len(before) :
        /\ after = SubSeq(before, 1, k) \o text \o SubSeq(before, k + 1, Len(before))
        /\ \A j \in (k + 1)..Len(before) : ~IsOriginal(before[j])

\* the last call put its text after all original characters of the line
LandedAfterOriginals ==
    LET call == hist[Len(hist)]
    IN  LandsAfterOriginals(call.before.lines[call.line + 1], call.text,
                            lines[call.line + 1])

\* a negative column c of a line canonicalizes to c + original length + 1
NegativeColumnsWrap ==
    \A l \in 1..Len(orig) :
        /\ col_lens[l] = Len(orig[l])
        /\ \A c \in (0 - (Len(orig[l]) + 1))..(-1) :
              /\ canonicalize_raises(RW, l - 1, c) = "none"
              /\ canonicalize_column_index(RW, l - 1, c) = c + Len(orig[l]) + 1

\* C10 as claimed: after any sequence of edits a negative column c of a
\* line canonicalizes to c + original length + 1, column -1 to the original
\* length, and an insertion at column -1 lands after all original
\* characters of the line.
C10_NegativeColumnIsEnd ==
    /\ NegativeColumnsWrap
    /\ InsertedAtEnd => LandedAfterOriginals

----------------------------------------------------------------------------
(* C11 *)

IsCut(i) == hist[i].op \in {"remove", "replace"}

\* the rewriter call i of hist left
After(i) == IF i = Len(hist) THEN RW ELSE hist[i + 1].before

\* the calls so far are well ordered: every column within the original line,
\* from <= to, the removed ranges pairwise disjoint and no later call
\* addressed to a column strictly inside a range removed before
WellOrdered ==
    /\ err = "none"
    /\ \A i \in 1..Len(hist) :
          /\ FromColumn(i) \in Columns(hist[i].line)
          /\ ToColumn(i) \in Columns(hist[i].line)
          /\ FromColumn(i) <= ToColumn(i)
    /\ \A i, j \in 1..Len(hist) :
          (i < j /\ IsCut(i) /\ hist[i].line = hist[j].line) =>
              /\ IsCut(j) => (ToColumn(i) <= FromColumn(j)
                                \/ ToColumn(j) <= FromColumn(i))
              /\ ~(FromColumn(i) < FromColumn(j) /\ FromColumn(j) < ToColumn(i))
              /\ ~(FromColumn(i) < ToColumn(j) /\ ToColumn(j) < ToColumn(i))

\* offset + pos was >= 0 at every get_rewritten_pos call made by call i: the
\* one of an insertion, the two of remove, and for replace also the one of
\* its insert_after, made on the OffsetList its remove left
NoClamp(i) ==
    LET call == hist[i]
        l == call.line + 1
        o == call.before.col_offs[l]
        mid == [insertions |-> o.insertions,
                removals |-> After(i).col_offs[l].removals]
    IN  /\ Unclamped(o, FromColumn(i)) >= 0
        /\ IsCut(i) => Unclamped(o, ToColumn(i)) >= 0
        /\ call.op = "replace" => Unclamped(mid, FromColumn(i)) >= 0

\* C11: in a well-ordered call sequence the floor at 0 is never exercised:
\* offset + pos is >= 0 at every call of get_rewritten_pos.
C11_ClampNeverExercised ==
    WellOrdered => \A i \in 1..Len(hist) : NoClamp(i)

\* two removals lie before the column of a third call, whose offset is < 0
C11_Witness ==
    /\ WellOrdered /\ Len(hist) = 3
    /\ hist[1].op = "remove" /\ FromColumn(1) < ToColumn(1)
    /\ hist[2].op = "replace" /\ FromColumn(2) < ToColumn(2)
    /\ hist[3].op = "remove"
    /\ FromColumn(3) = ToColumn(1)
    /\ Unclamped(hist[3].before.col_offs[1], ToColumn(3)) < ToColumn(3)

----------------------------------------------------------------------------
(* C12 *)

\* one remove was made on a fresh rewriter
SingleRemove == Len(hist) = 1 /\ hist[1].op = "remove" /\ err = "none"

\* C12: after a single remove(l, a, l, b) with 0 <= a <= b <= original
\* length the line is the original without the characters of columns
\* a..b-1, rewritten(pos) = pos - (b - a) for every pos >= b and
\* rewritten(pos) = pos for every pos <= a.
C12_SingleRemoveShifts ==
    SingleRemove =>
        LET l == hist[1].line + 1
            a == hist[1].col
            b == hist[1].to_col
        IN  /\ lines[l] = SubSeq(orig[l], 1, a)
                            \o SubSeq(orig[l], b + 1, Len(orig[l]))
            /\ \A pos \in b..(Len(orig[l]) + 1) :
                  get_rewritten_pos(col_offs[l], pos) = pos - (b - a)
            /\ \A pos \in 0..a : get_rewritten_pos(col_offs[l], pos) = pos

C12_Witness ==
    /\ SingleRemove
    /\ hist[1].col = 1 /\ hist[1].to_col = 2
    /\ orig[1] = <<"0", "1", "2">> /\ lines[1] = <<"0", "2">>
    /\ get_rewritten_pos(col_offs[1], 3) = 2

----------------------------------------------------------------------------
(* C13 *)

\* the last call was made on one line with 0 <= from_col <= to_col <= length
LastOnValidRange ==
    /\ hist # <<>>
    /\ LET call == hist[Len(hist)]
       IN  /\ call.line = call.to_line
           /\ 0 <= call.col /\ call.col <= call.to_col
           /\ call.to_col <= Len(orig[call.line + 1])

\* the last call was replace("", l, c1, l, c2) on a valid range
ReplacedByNothing ==
    /\ LastOnValidRange
    /\ hist[Len(hist)].op = "replace" /\ hist[Len(hist)].text = <<>>

\* C13: from every reachable rewriter state replace("", l, c1, l, c2) on a
\* valid range leaves on every line the text remove(l, c1, l, c2) leaves
\* from the same state.
C13_ReplaceByNothingIsRemove ==
    ReplacedByNothing =>
        LET call == hist[Len(hist)]
        IN  \A r \in remove_results(call.before, call.line, call.col,
                                    call.to_line, call.to_col) :
                r.err = err /\ r.rw.lines = lines

\* an edited line lost a character to replace("")
C13_Witness ==
    /\ ReplacedByNothing /\ err = "none"
    /\ Len(hist) = MaxOps
    /\ hist[Len(hist)].col < hist[Len(hist)].to_col
    /\ hist[Len(hist)].before.lines # orig
    /\ Len(lines[hist[Len(hist)].line + 1])
         < Len(hist[Len(hist)].before.lines[hist[Len(hist)].line + 1])

----------------------------------------------------------------------------
(* C14 *)

LastCall == hist[Len(hist)]

\* the last call was a remove or a replace that named two different lines
CrossLine ==
    /\ hist # <<>>
    /\ LastCall.op \in {"remove", "replace"}
    /\ LastCall.line # LastCall.to_line

\* C14: a remove or replace whose from_line differs from to_line fails, and
\* leaves every line's text and every OffsetList as before the call.
C14_CrossLineFails ==
    CrossLine => (err # "none" /\ RW = LastCall.before)

\* a replace across two lines failed on an edited rewriter
C14_Witness ==
    /\ CrossLine /\ LastCall.op = "replace" /\ Len(hist) = MaxOps
    /\ LastCall.col = 0 /\ LastCall.to_col = 1
    /\ err = "AssertionError"
    /\ lines # orig /\ RW = LastCall.before

----------------------------------------------------------------------------
(* C15 *)

\* column c of a line is below -(original length + 1)
BelowWrap(line, c) == c < 0 - (Len(orig[line + 1]) + 1)

\* the last call was given a column below the wrap-around range
CalledBelowWrap ==
    /\ hist # <<>>
    /\ \/ BelowWrap(LastCall.line, LastCall.col)
       \/ BelowWrap(LastCall.to_line, LastCall.to_col)

\* C15: canonicalize_column_index never returns a negative column; every
\* operation given a column c < -(original length + 1) fails, with no line
\* text and no OffsetList modified.
C15_BelowWrapFails ==
    /\ \A line \in LineNumbers :
         \A c \in (0 - (Len(orig[line + 1]) + 3))..Len(orig[line + 1]) :
            canonicalize_raises(RW, line, c) = "none"
                => canonicalize_column_index(RW, line, c) >= 0
    /\ CalledBelowWrap => (err # "none" /\ RW = LastCall.before)

\* an insert_after below the wrap-around range failed on an edited rewriter
C15_Witness ==
    /\ CalledBelowWrap /\ LastCall.op = "insert_after" /\ Len(hist) = MaxOps
    /\ err = "AssertionError"
    /\ lines # orig /\ RW = LastCall.before

----------------------------------------------------------------------------
(* C17 *)

\* C17: an operation addressed to line l leaves the text and the OffsetList
\* of every other line unchanged; the number of lines never changes and
\* col_lens stays the lengths computed at construction.
C17_OtherLinesUnchanged ==
    /\ Len(lines) = Len(orig) /\ Len(col_offs) = Len(orig)
    /\ col_lens = [l \in 1..Len(orig) |-> Len(orig[l])]
    /\ hist # <<>> =>
          \A l \in 1..Len(orig) :
              l # LastCall.line + 1 =>
                  /\ lines[l] = LastCall.before.lines[l]
                  /\ col_offs[l] = LastCall.before.col_offs[l]

\* the second line was edited after the first had been
C17_Witness ==
    /\ Len(hist) = MaxOps /\ err = "none"
    /\ LastCall.line = 1 /\ LastCall.op = "replace"
    /\ lines[2] # LastCall.before.lines[2]
    /\ lines[1] # orig[1] /\ lines[1] = LastCall.before.lines[1]

----------------------------------------------------------------------------
(* C16 *)

\* the number of places at which pat occurs in text
Count(text, pat) ==
    Cardinality({i \in 1..(Len(text) - Len(pat) + 1) :
                    SubSeq(text, i, i + Len(pat) - 1) = pat})

\* format_source ran: the sanitizer, then apply, both to their end
FormattedSource ==
    /\ Len(hist) = 2 /\ hist[1].op = "sanitize" /\ hist[2].op = "apply"
    /\ err = "none"

\* C16: in format_source the sanitizer runs before apply, so in the final
\* output every tag string inserted by apply is intact and every '<' and '>'
\* of the original text is escaped.
C16_SanitizeBeforeApply ==
    FormattedSource =>
        /\ \A l \in 1..Len(orig) :
              /\ Count(lines[l], <<"&", "l", "t", ";">>) = Count(orig[l], <<"<">>)
              /\ Count(lines[l], <<"&", "g", "t", ";">>) = Count(orig[l], <<">">>)
        /\ \A i \in 1..Len(tags) :
              InsideAnnotation(tags[i]) =>
                  /\ Count(lines[tags[i].extent.sl],
                           start_tag(tags[i].tag, tags[i].attributes)) > 0
                  /\ Count(lines[tags[i].extent.el], end_tag(tags[i].tag)) > 0

----------------------------------------------------------------------------
(* C18 *)

HasDoubleDash(a) == \E i \in 1..Len(a) : a[i] = "--"

\* C18: split_args returns the elements before the first '--' and the
\* elements after it, a later '--' kept in the second list; without a '--'
\* it returns (args, []); nothing but the first '--' is dropped or reordered.
C18_SplitAtFirstDoubleDash ==
    split # <<>> =>
        IF HasDoubleDash(args)
        THEN /\ split[1] \o <<"--">> \o split[2] = args
             /\ ~HasDoubleDash(split[1])
        ELSE split = <<args, <<>> >>

\* a list with two '--' was split, the second one kept
C18_Witness ==
    /\ split # <<>>
    /\ Len(args) = MaxArgs
    /\ split[1] = <<"-o">>
    /\ HasDoubleDash(split[2]) /\ Len(split[2]) = MaxArgs - 2

----------------------------------------------------------------------------
(* C19 *)

\* the last call was a remove of a range of line 0, every call before it an
\* insertion on that line
RemovedAfterInsertions ==
    /\ Len(hist) >= 2 /\ err = "none"
    /\ LastCall.op = "remove" /\ LastCall.line = 0
    /\ \A i \in 1..(Len(hist) - 1) :
          hist[i].op \in {"insert_before", "insert_after"} /\ hist[i].line = 0

\* the length of the texts the calls hist[i..] before the last inserted at
\* original columns strictly between a and b
RECURSIVE InsertedInside(_, _, _)
InsertedInside(i, a, b) ==
    IF i >= Len(hist) THEN 0
    ELSE (IF a < FromColumn(i) /\ FromColumn(i) < b
          THEN Len(hist[i].text) ELSE 0)
         + InsertedInside(i + 1, a, b)

\* C19: a remove(l, a, l, b) after earlier insertions on the line deletes
\* only the original characters of columns a..b-1 and the text inserted
\* strictly inside the range: the line shrinks by exactly that much (text
\* inserted at column b or at or before a stays) and every original
\* character outside the range is still present.
C19_RemoveKeepsTextAtEnds ==
    RemovedAfterInsertions =>
        LET a == FromColumn(Len(hist))
            b == ToColumn(Len(hist))
        IN  /\ Len(LastCall.before.lines[1]) - Len(lines[1])
                 = (b - a) + InsertedInside(1, a, b)
            /\ \A c \in 0..(Len(orig[1]) - 1) :
                  (c < a \/ c >= b) => Count(lines[1], <<orig[1][c + 1]>>) = 1

----------------------------------------------------------------------------
(* C20 *)

\* the opening and closing tag strings of the buffered annotations
TagStrings ==
    {start_tag(tags[i].tag, tags[i].attributes) : i \in 1..Len(tags)}
      \cup {end_tag(tags[i].tag) : i \in 1..Len(tags)}

\* the tag strings the text starts with
TagsAtHead(text) ==
    {t \in TagStrings : Len(t) <= Len(text) /\ SubSeq(text, 1, Len(t)) = t}

\* the text with every unbroken tag string taken out, left to right
RECURSIVE Detag(_)
Detag(text) ==
    IF text = <<>> THEN <<>>
    ELSE IF TagsAtHead(text) # {}
         THEN LET t == CHOOSE t \in TagsAtHead(text) :
                          \A u \in TagsAtHead(text) : Len(u) <= Len(t)
              IN  Detag(SubSeq(text, Len(t) + 1, Len(text)))
    ELSE <<Head(text)>> \o Detag(Tail(text))

\* the number of unbroken tag strings in the text
RECURSIVE TagCount(_)
TagCount(text) ==
    IF text = <<>> THEN 0
    ELSE IF TagsAtHead(text) # {}
         THEN LET t == CHOOSE t \in TagsAtHead(text) :
                          \A u \in TagsAtHead(text) : Len(u) <= Len(t)
              IN  1 + TagCount(SubSeq(text, Len(t) + 1, Len(text)))
    ELSE TagCount(Tail(text))

\* the number of tags the buffered annotations put on line l
TagsOnLine(l) ==
    Cardinality({i \in 1..Len(tags) : tags[i].extent.sl = l})
      + Cardinality({i \in 1..Len(tags) : tags[i].extent.el = l})

\* C20: after sanitize and then apply of in-range annotations every opening
\* tag, closing tag and escape sequence is an unbroken substring of its
\* line, and the original characters keep their order: each line holds all
\* its tags, and without them it is the escaped original line.
C20_InsertedTextsUnbroken ==
    (FormattedSource /\ \A i \in 1..Len(tags) : InsideAnnotation(tags[i]))
        => \A l \in 1..Len(orig) :
              /\ TagCount(lines[l]) = TagsOnLine(l)
              /\ Detag(lines[l]) = Escape(orig[l])

----------------------------------------------------------------------------
(* C21 *)

\* the splice indices of call i lie within the line the call found:
\* 0 <= adj_col <= length for an insertion, 0 <= adj_from_col <= adj_to_col
\* <= length for a remove; for a replace those of its remove, and the
\* adj_col of its insert_after within the line the remove left
IndicesWithinLine(i) ==
    LET call == hist[i]
        l == call.line + 1
        o == call.before.col_offs[l]
        theline == call.before.lines[l]
        adj_from_col == get_rewritten_pos(o, FromColumn(i))
        adj_to_col == get_rewritten_pos(o, ToColumn(i))
        mid == [insertions |-> o.insertions,
                removals |-> After(i).col_offs[l].removals]
    IN  CASE call.op = "insert_before" ->
               /\ 0 <= insert_before_adj(o, FromColumn(i))
               /\ insert_before_adj(o, FromColumn(i)) <= Len(theline)
          [] call.op = "insert_after" ->
               /\ 0 <= insert_after_adj(o, FromColumn(i))
               /\ insert_after_adj(o, FromColumn(i)) <= Len(theline)
          [] call.op = "remove" ->
               /\ 0 <= adj_from_col /\ adj_from_col <= adj_to_col
               /\ adj_to_col <= Len(theline)
          [] call.op = "replace" ->
               /\ 0 <= adj_from_col /\ adj_from_col <= adj_to_col
               /\ adj_to_col <= Len(theline)
               /\ 0 <= insert_after_adj(mid, FromColumn(i))
               /\ insert_after_adj(mid, FromColumn(i))
                    <= Len(Cut(theline, adj_from_col, adj_to_col))

\* C21: in every state reached by operations whose columns lie within the
\* original line, the index used for splicing is within the current line:
\* 0 <= index <= length for insert_before and insert_after, and
\* 0 <= from index <= to index <= length for remove.
C21_SpliceIndexWithinLine ==
    err = "none" => \A i \in 1..Len(hist) : IndicesWithinLine(i)

----------------------------------------------------------------------------
(* C22 *)

\* an attribute value with '"', '<' and '>' escaped
RECURSIVE EscapeValue(_)
EscapeValue(value) ==
    IF value = <<>> THEN <<>>
    ELSE (CASE Head(value) = "\"" -> <<"&", "q", "u", "o", "t", ";">>
            [] Head(value) = "<" -> <<"&", "l", "t", ";">>
            [] Head(value) = ">" -> <<"&", "g", "t", ";">>
            [] OTHER -> <<Head(value)>>)
         \o EscapeValue(Tail(value))

\* each attribute from entry i on as  name="escaped value", a space before
RECURSIVE EscapedAttributes(_, _)
EscapedAttributes(attributes, i) ==
    IF i > Len(attributes) THEN <<>>
    ELSE <<" ">> \o attributes[i][1] \o <<"=", "\"">>
           \o EscapeValue(attributes[i][2]) \o <<"\"">>
           \o EscapedAttributes(attributes, i + 1)

\* one annotation of the characters [1, 2) of line 1 was applied
OneApplied ==
    /\ Applied /\ err = "none" /\ Len(tags) = 1
    /\ tags[1].extent = Extent(1, 1, 1, 2)

\* C22: the rendered opening tag is '<' + tag, then each attribute as
\* name="value" in list order with the value escaped, then '>', with no
\* attribute part for an empty list; the closing tag is '</' + tag + '>'.
C22_TagRenderedEscaped ==
    OneApplied =>
        lines[1] = <<"<">> \o tags[1].tag
                     \o EscapedAttributes(tags[1].attributes, 1) \o <<">">>
                     \o SubSeq(orig[1], 1, 1)
                     \o <<"<", "/">> \o tags[1].tag \o <<">">>
                     \o SubSeq(orig[1], 2, Len(orig[1]))

----------------------------------------------------------------------------
(* C23 *)

Highlighted == hist # <<>> /\ hist[1].op = "highlight_diagnostics"

\* the most severe class of a set of diagnostics
MostSevere(S) ==
    IF \E d \in S : d[1] = <<"error">> THEN <<"error">> ELSE <<"warning">>

\* the buffered tags that are a whole-line span of the line
SpansOf(line) ==
    {i \in 1..Len(tags) :
        /\ tags[i].tag = <<"s", "p", "a", "n">>
        /\ tags[i].extent = EntireLineSourceLocation(line)}

\* C23: for every line with diagnostics highlight_diagnostics adds exactly
\* one whole-line span, whose class attribute is 'error' when a diagnostic
\* of the line has class 'error' and 'warning' otherwise, whatever the
\* iteration order of the line's set.
C23_SpanHasMostSevereClass ==
    Highlighted =>
        /\ Len(tags) = Cardinality(DOMAIN diagnostics)
        /\ \A line \in DOMAIN diagnostics :
              /\ Cardinality(SpansOf(line)) = 1
              /\ \A i \in SpansOf(line) :
                    /\ tags[i].attributes[1][1] = <<"class">>
                    /\ tags[i].attributes[1][2] = MostSevere(diagnostics[line])

----------------------------------------------------------------------------
(* C24 *)

\* the ids /api/sources lists
ListedIds == {api_sources(sources).listing[k].id : k \in 1..Len(sources)}

\* the filename /api/sources pairs with a listed id
ListedFilename(i) ==
    (CHOOSE e \in {api_sources(sources).listing[k] : k \in 1..Len(sources)} :
        e.id = i).filename

\* C24: GET /api/sources/<idx> answers NotFound for every integer idx that
\* is not one of the ids 0..n-1 listed by /api/sources, negative idx
\* included; for a listed id it returns the file /api/sources pairs with it.
C24_UnlistedIdNotFound ==
    /\ ListedIds = 0..(Len(sources) - 1)
    /\ resp.request = "api_show_source" =>
          IF resp.idx \in ListedIds
          THEN /\ resp.status = "OK" /\ resp.id = resp.idx
               /\ resp.filename = ListedFilename(resp.idx)
               /\ filename_to_id(sources, resp.filename) = resp.idx
          ELSE resp.status = "NotFound"

====
